---- MODULE Spec2Model ----
(***************************************************************************)
(* teacup: a debugging proxy for JSON-RPC over TCP.                        *)
(*                                                                         *)
(* One handleConn instance: the client producer goroutine, the handshake,  *)
(* the server producer goroutine, the relay loop with its select, the      *)
(* deferred teardown, and the Broker (pending maps, event log) that        *)
(* processMessage drives.  A transport is modelled at the level of lines:  *)
(* what bufio.Scanner hands out on one side and what sendLine writes       *)
(* (line, newline, flush) on the other.                                    *)
(***************************************************************************)
EXTENDS Integers, Sequences, FiniteSets, TLC

\* Frames read by both producers after the handshake frame, in total.
MaxFrames == 3
\* A nil pointer (*json.RawMessage, *RpcError); a nil *time.Time is 0.
Nil == "nil"

RpcCodeParseError == -32700
RpcCodeInvalidRequest == -32600
RpcCodeMethodNotFound == -32601
RpcCodeInvalidParams == -32602
RpcCodeInternalError == -32603

EventKindRequest == "request"
EventKindNotification == "notification"

EventStatusPending == "pending"
EventStatusCompleted == "completed"
EventStatusErrored == "errored"
EventStatusCancelled == "cancelled"

bannedMethods == {"Fetch.Commons", "Profile.Data"}

\* The request ids the peers choose from: two, so that a response can match a
\* pending request, miss it, and an id can be reused.
Ids == {1, 2}

(***************************************************************************)
(* Lines on the wire.  A line that is a JSON object is a record holding    *)
(* the members it carries; any other line is [raw |-> ...].                *)
(***************************************************************************)
Garbage == [raw |-> "garbage"]

\* First lines a client sends: no JSON, a wrong version tag, a wrong method,
\* Proxy.Connect without params, with params that are no object, with an object
\* that has no address, and with an address.
FirstFrames ==
    {Garbage,
     [jsonrpc |-> "1.0", id |-> 1, method |-> "Proxy.Connect", params |-> "addr"],
     [jsonrpc |-> "2.0", id |-> 1, method |-> "m", params |-> "p"],
     [jsonrpc |-> "2.0", id |-> 1, method |-> "Proxy.Connect"],
     [jsonrpc |-> "2.0", id |-> 1, method |-> "Proxy.Connect", params |-> "bad"],
     [jsonrpc |-> "2.0", id |-> 1, method |-> "Proxy.Connect", params |-> "noaddr"],
     [jsonrpc |-> "2.0", id |-> 2, method |-> "Proxy.Connect", params |-> "addr"]}

\* Lines either peer sends once the proxy relays.
RelayFrames ==
    {Garbage}
    \cup {[jsonrpc |-> "2.0", method |-> "m", params |-> "p"]}
    \cup {[jsonrpc |-> "2.0", method |-> "Log"]}
    \cup {[jsonrpc |-> "2.0", result |-> "r"]}
    \cup {[jsonrpc |-> "2.0", id |-> i, method |-> "m", params |-> "p"] : i \in Ids}
    \cup {[jsonrpc |-> "2.0", id |-> i, result |-> "r"] : i \in Ids}
    \cup {[jsonrpc |-> "2.0", id |-> i, error |-> "e"] : i \in Ids}

VARIABLES
    mainpc,        \* handleConn: "handshake", "connecting", "relay", "returned", "panicked"
    hs,            \* how the handshake ended ("none" while it has not)
    cprod,         \* client producer goroutine: "reading", "sending", "exited"
    sprod,         \* server producer goroutine: "idle" (not started), "reading", "sending", "exited"
    clientRead,    \* lines the client producer's scanner has handed out
    serverRead,    \* lines the server producer's scanner has handed out
    toServer,      \* lines sendLine has written to serverW
    toClient,      \* lines sendLine has written to clientW
    replies,       \* handshake replies written to clientW (delivered: the write succeeded)
    ctxDone,       \* ctx.Done() is closed
    dials,         \* calls of net.DialTimeout
    clientCloses,  \* calls of clientConn.Close
    serverCloses,  \* calls of serverConn.Close
    retires,       \* calls of broker.Retire
    writeFailed,   \* a sendLine of the relay loop returned an error
    broker,        \* [InboundRequests, OutboundRequests, Events]
    clock          \* calls of now() so far; the n-th call returns n

vars == <<mainpc, hs, cprod, sprod, clientRead, serverRead, toServer, toClient,
          replies, ctxDone, dials, clientCloses, serverCloses, retires,
          writeFailed, broker, clock>>

(***************************************************************************)
(* encoding/json                                                           *)
(***************************************************************************)
Field(f, k, zero) == IF k \in DOMAIN f THEN f[k] ELSE zero

\* Unmarshal as it would be if a line that is no JSON object gave a zero
\* message and no error.
Unmarshal_Lenient(f) ==
    [err     |-> FALSE,
     JSONRPC |-> Field(f, "jsonrpc", ""),
     ID      |-> Field(f, "id", 0),
     Method  |-> Field(f, "method", ""),
     Params  |-> Field(f, "params", Nil),
     Result  |-> Field(f, "result", Nil),
     Error   |-> Field(f, "error", Nil)]

\* json.Unmarshal([]byte(line), &msg) into a zero RpcMessage.
Unmarshal(f) ==
    [err     |-> "raw" \in DOMAIN f,
     JSONRPC |-> Field(f, "jsonrpc", ""),
     ID      |-> Field(f, "id", 0),
     Method  |-> Field(f, "method", ""),
     Params  |-> Field(f, "params", Nil),
     Result  |-> Field(f, "result", Nil),
     Error   |-> Field(f, "error", Nil)]

\* json.Unmarshal(*connectReq.Params, &params) into ProxyConnectParams.
UnmarshalParams(p) ==
    [err     |-> p \notin {"noaddr", "addr"},
     Address |-> IF p = "addr" THEN "host:port" ELSE ""]

\* The outcomes net.DialTimeout("tcp", address, 1s) can have (TRUE: connected).
DialOutcomes(address) == IF address = "" THEN {FALSE} ELSE BOOLEAN

(***************************************************************************)
(* Broker and Event.  An *Event is its index in Events; s is the broker    *)
(* together with the clock and a flag telling that the goroutine panicked. *)
(***************************************************************************)
newBroker == [InboundRequests |-> <<>>, OutboundRequests |-> <<>>, Events |-> <<>>]

Remove(m, k) == [x \in DOMAIN m \ {k} |-> m[x]]
Put(m, k, v) == [x \in DOMAIN m \cup {k} |-> IF x = k THEN v ELSE m[x]]

\* GetRequest as it would be with one lookup falling back to the other map.
GetRequest_AnyDirection(s, inbound, id) ==
    IF id \in DOMAIN (IF inbound THEN s.InboundRequests ELSE s.OutboundRequests)
    THEN (IF inbound THEN s.InboundRequests ELSE s.OutboundRequests)[id]
    ELSE IF id \in DOMAIN (IF inbound THEN s.OutboundRequests ELSE s.InboundRequests)
    THEN (IF inbound THEN s.OutboundRequests ELSE s.InboundRequests)[id]
    ELSE 0

\* The index of the event the map holds for id, 0 for nil.
GetRequest(s, inbound, id) ==
    IF inbound
    THEN IF id \in DOMAIN s.InboundRequests THEN s.InboundRequests[id] ELSE 0
    ELSE IF id \in DOMAIN s.OutboundRequests THEN s.OutboundRequests[id] ELSE 0

\* Landed as it would be if it deleted nothing.
Landed_Keeps(s, e) == s

\* Landed as it would be if it deleted the id from both maps.
Landed_BothMaps(s, e) ==
    [s EXCEPT !.InboundRequests = Remove(@, s.Events[e].ID),
              !.OutboundRequests = Remove(@, s.Events[e].ID)]

Landed(s, e) ==
    IF s.Events[e].Inbound
    THEN [s EXCEPT !.InboundRequests = Remove(@, s.Events[e].ID)]
    ELSE [s EXCEPT !.OutboundRequests = Remove(@, s.Events[e].ID)]

\* strings.Contains over the method names of the model: none is a proper
\* substring of another.
ShouldPrint(ev) == ev.Method \notin bannedMethods

\* Event.String dereferences ev.Params for a "Log" notification.
StringPanics(ev) ==
    /\ ev.Kind = EventKindNotification
    /\ ev.Method = "Log"
    /\ ev.Params = Nil

Updated(s, ev) ==
    IF ShouldPrint(ev) /\ StringPanics(ev) THEN [s EXCEPT !.panic = TRUE] ELSE s

AddTo(s, ev) ==
    LET s1 == Updated(s, ev)
        e  == Len(s.Events) + 1
        s2 == [s1 EXCEPT !.Events = Append(@, ev)]
    IN  IF s1.panic THEN s1
        ELSE IF ev.Kind = EventKindRequest
             THEN IF ev.Inbound
                  THEN [s2 EXCEPT !.InboundRequests = Put(@, ev.ID, e)]
                  ELSE [s2 EXCEPT !.OutboundRequests = Put(@, ev.ID, e)]
             ELSE s2

RecordCompletion(s, e, result) ==
    LET s1 == [s EXCEPT !.clock = @ + 1,
                        !.Events[e].End = s.clock + 1,
                        !.Events[e].Result = result,
                        !.Events[e].Status = EventStatusCompleted]
        s2 == Landed(s1, e)
    IN  Updated(s2, s2.Events[e])

RecordError(s, e, err) ==
    LET s1 == [s EXCEPT !.clock = @ + 1,
                        !.Events[e].End = s.clock + 1,
                        !.Events[e].Error = err,
                        !.Events[e].Status = EventStatusErrored]
        s2 == Landed(s1, e)
    IN  Updated(s2, s2.Events[e])

RecordCancellation(s, e) ==
    LET s1 == [s EXCEPT !.clock = @ + 1,
                        !.Events[e].End = s.clock + 1,
                        !.Events[e].Status = EventStatusCancelled]
        s2 == Landed(s1, e)
    IN  Updated(s2, s2.Events[e])

Duration(ev) ==
    IF ev.Kind = EventKindRequest
    THEN IF ev.Start # 0 /\ ev.End # 0 THEN ev.End - ev.Start ELSE 0
    ELSE 0

\* The orders in which a range over a map with these keys can visit them.
Orders(S) ==
    {o \in [1..Cardinality(S) -> S] : \A i, j \in DOMAIN o : o[i] = o[j] => i = j}

\* One range loop of Retire, visiting the keys in the given order; a key whose
\* entry was deleted before the loop reaches it is not produced.
RECURSIVE RetireLoop(_, _, _)
RetireLoop(s, inbound, order) ==
    IF order = <<>> \/ s.panic THEN s
    ELSE LET e == GetRequest(s, inbound, Head(order))
         IN  RetireLoop(IF e = 0 THEN s ELSE RecordCancellation(s, e),
                        inbound, Tail(order))

\* Retire as it would be without its second loop.
Retire_InboundOnly(s, inOrder, outOrder) ==
    RetireLoop(s, TRUE, inOrder)

Retire(s, inOrder, outOrder) ==
    RetireLoop(RetireLoop(s, TRUE, inOrder), FALSE, outOrder)

(***************************************************************************)
(* handleConn                                                              *)
(***************************************************************************)
St == [InboundRequests  |-> broker.InboundRequests,
       OutboundRequests |-> broker.OutboundRequests,
       Events           |-> broker.Events,
       clock            |-> clock,
       panic            |-> FALSE]

BrokerOf(s) == [InboundRequests  |-> s.InboundRequests,
                OutboundRequests |-> s.OutboundRequests,
                Events           |-> s.Events]

processMessage(s, inbound, msgString) ==
    LET msg == Unmarshal(msgString)
        req == GetRequest(s, ~inbound, msg.ID)
    IN  IF msg.err THEN s
        ELSE IF msg.ID = 0
        THEN AddTo([s EXCEPT !.clock = @ + 1],
                   [ID |-> 0, Method |-> msg.Method, Kind |-> EventKindNotification,
                    Inbound |-> inbound, Status |-> EventStatusCompleted,
                    Start |-> s.clock + 1, End |-> 0,
                    Params |-> msg.Params, Result |-> Nil, Error |-> Nil])
        ELSE IF msg.Method # ""
        THEN AddTo([s EXCEPT !.clock = @ + 1],
                   [ID |-> msg.ID, Method |-> msg.Method, Kind |-> EventKindRequest,
                    Inbound |-> inbound, Status |-> EventStatusPending,
                    Start |-> s.clock + 1, End |-> 0,
                    Params |-> msg.Params, Result |-> Nil, Error |-> Nil])
        ELSE IF req = 0 THEN s
        ELSE IF msg.Error # Nil THEN RecordError(s, req, msg.Error)
        ELSE RecordCompletion(s, req, msg.Result)

\* sendLine as it would be if the relay wrote the re-encoded message.
sendLine_Remarshal(w, line, ok) == IF ok THEN Append(w, Unmarshal(line)) ELSE w

\* sendLine as it would be if it wrote nothing and reported success.
sendLine_Silent(w, line, ok) == w

\* sendLine: the line, a newline, a flush.  ok is whether the three writes
\* succeeded; a failed write delivers no complete line.
sendLine(w, line, ok) == IF ok THEN Append(w, line) ELSE w

\* replyError as it would be if it did not echo the request id.
replyError_NoId(id, errorCode, ok) ==
    Append(replies, [kind |-> "error", id |-> 0, code |-> errorCode,
                     newline |-> FALSE, delivered |-> ok])

\* replyError: the marshalled error message and a flush, no newline; a failed
\* write is logged only.  ok is whether the write and the flush succeeded.
replyError(id, errorCode, ok) ==
    Append(replies, [kind |-> "error", id |-> id, code |-> errorCode,
                     newline |-> FALSE, delivered |-> ok])

\* The success reply as it would be if it did not echo the request id.
replyResult_NoId(id, ok) ==
    Append(replies, [kind |-> "result", id |-> 0, code |-> 0,
                     newline |-> TRUE, delivered |-> ok])

\* The success reply: the marshalled result message, a newline and a flush.
replyResult(id, ok) ==
    Append(replies, [kind |-> "result", id |-> id, code |-> 0,
                     newline |-> TRUE, delivered |-> ok])

Init ==
    /\ mainpc = "handshake"
    /\ hs = "none"
    /\ cprod = "reading"
    /\ sprod = "idle"
    /\ clientRead = <<>>
    /\ serverRead = <<>>
    /\ toServer = <<>>
    /\ toClient = <<>>
    /\ replies = <<>>
    /\ ctxDone = FALSE
    /\ dials = 0
    /\ clientCloses = 0
    /\ serverCloses = 0
    /\ retires = 0
    /\ writeFailed = FALSE
    /\ broker = newBroker
    /\ clock = 0

Relayed == (IF clientRead = <<>> THEN 0 ELSE Len(clientRead) - 1) + Len(serverRead)

\* The client producer: scanner.Scan() hands out a line, which the goroutine
\* then offers on clientIncoming.
ClientRead ==
    /\ cprod = "reading"
    /\ mainpc # "panicked"
    /\ clientCloses = 0
    /\ \E f \in (IF clientRead = <<>> THEN FirstFrames ELSE RelayFrames) :
          /\ clientRead # <<>> => Relayed < MaxFrames
          /\ clientRead' = Append(clientRead, f)
    /\ cprod' = "sending"
    /\ UNCHANGED <<mainpc, hs, sprod, serverRead, toServer, toClient, replies, ctxDone,
                   dials, clientCloses, serverCloses, retires, writeFailed, broker, clock>>

\* scanner.Scan() returns false (end of stream, read error, connection
\* closed by teardown): the deferred cancel() runs and the goroutine exits.
ClientEOF ==
    /\ cprod = "reading"
    /\ mainpc # "panicked"
    /\ cprod' = "exited"
    /\ ctxDone' = TRUE
    /\ UNCHANGED <<mainpc, hs, sprod, clientRead, serverRead, toServer, toClient, replies,
                   dials, clientCloses, serverCloses, retires, writeFailed, broker, clock>>

ServerRead ==
    /\ sprod = "reading"
    /\ mainpc # "panicked"
    /\ serverCloses = 0
    /\ Relayed < MaxFrames
    /\ \E f \in RelayFrames : serverRead' = Append(serverRead, f)
    /\ sprod' = "sending"
    /\ UNCHANGED <<mainpc, hs, cprod, clientRead, toServer, toClient, replies, ctxDone,
                   dials, clientCloses, serverCloses, retires, writeFailed, broker, clock>>

ServerEOF ==
    /\ sprod = "reading"
    /\ mainpc # "panicked"
    /\ sprod' = "exited"
    /\ ctxDone' = TRUE
    /\ UNCHANGED <<mainpc, hs, cprod, clientRead, serverRead, toServer, toClient, replies,
                   dials, clientCloses, serverCloses, retires, writeFailed, broker, clock>>

\* The handshake select: time.After(1s) fires.
HandshakeTimeout ==
    /\ mainpc = "handshake"
    /\ mainpc' = "returned"
    /\ hs' = "timeout"
    /\ clientCloses' = clientCloses + 1
    /\ UNCHANGED <<cprod, sprod, clientRead, serverRead, toServer, toClient, replies,
                   ctxDone, dials, serverCloses, retires, writeFailed, broker, clock>>

\* The handshake select: the first line arrives on clientIncoming.
HandshakeRecv ==
    /\ mainpc = "handshake"
    /\ cprod = "sending"
    /\ mainpc' = "connecting"
    /\ cprod' = "reading"
    /\ UNCHANGED <<hs, sprod, clientRead, serverRead, toServer, toClient, replies, ctxDone,
                   dials, clientCloses, serverCloses, retires, writeFailed, broker, clock>>

\* A return (or panic) of the handshake block: the one deferred call so far
\* is clientConn.Close.
HandshakeAbort(pc, how) ==
    /\ mainpc' = pc
    /\ hs' = how
    /\ clientCloses' = clientCloses + 1
    /\ UNCHANGED <<sprod, serverCloses>>

\* The handshake block: unmarshal the first line, check it, dial, reply, and on
\* success start the server producer and create the broker.
HandshakeProcess ==
    /\ mainpc = "connecting"
    /\ LET connectReq == Unmarshal(clientRead[1])
           params     == UnmarshalParams(connectReq.Params)
       IN  IF connectReq.err
           THEN HandshakeAbort("returned", "unmarshal") /\ UNCHANGED <<replies, dials>>
           ELSE IF connectReq.JSONRPC # "2.0"
           THEN HandshakeAbort("returned", "version") /\ UNCHANGED <<replies, dials>>
           ELSE IF connectReq.Method # "Proxy.Connect"
           THEN /\ \E ok \in BOOLEAN :
                      replies' = replyError(connectReq.ID, RpcCodeInvalidRequest, ok)
                /\ HandshakeAbort("returned", "method")
                /\ UNCHANGED dials
           ELSE IF connectReq.Params = Nil
           THEN HandshakeAbort("panicked", "nilparams") /\ UNCHANGED <<replies, dials>>
           ELSE IF params.err
           THEN /\ \E ok \in BOOLEAN :
                      replies' = replyError(connectReq.ID, RpcCodeInvalidParams, ok)
                /\ HandshakeAbort("returned", "params")
                /\ UNCHANGED dials
           ELSE /\ dials' = dials + 1
                /\ \E connected \in DialOutcomes(params.Address), ok \in BOOLEAN :
                      IF ~connected
                      THEN /\ replies' = replyError(connectReq.ID, RpcCodeInternalError, ok)
                           /\ HandshakeAbort("returned", "dial")
                      ELSE IF ~ok
                      THEN \* writing the reply failed: serverConn.Close is deferred too
                           /\ replies' = replyResult(connectReq.ID, FALSE)
                           /\ mainpc' = "returned"
                           /\ hs' = "reply"
                           /\ clientCloses' = clientCloses + 1
                           /\ serverCloses' = serverCloses + 1
                           /\ sprod' = sprod
                      ELSE /\ replies' = replyResult(connectReq.ID, TRUE)
                           /\ mainpc' = "relay"
                           /\ hs' = "ok"
                           /\ sprod' = "reading"
                           /\ UNCHANGED <<clientCloses, serverCloses>>
    /\ UNCHANGED <<cprod, clientRead, serverRead, toServer, toClient, ctxDone, retires,
                   writeFailed, broker, clock>>

\* Teardown as it would be without the deferred serverConn.Close.
Teardown_NoServerClose(s, pc) ==
    /\ \E inOrder \in Orders(DOMAIN s.InboundRequests),
          outOrder \in Orders(DOMAIN s.OutboundRequests) :
          LET r == Retire([s EXCEPT !.panic = FALSE], inOrder, outOrder)
          IN  /\ broker' = BrokerOf(r)
              /\ clock' = r.clock
    /\ retires' = retires + 1
    /\ serverCloses' = serverCloses
    /\ clientCloses' = clientCloses + 1
    /\ mainpc' = pc

\* The deferred calls of a handleConn that reached the relay loop, last
\* deferred first: broker.Retire, serverConn.Close, clientConn.Close.
Teardown(s, pc) ==
    /\ \E inOrder \in Orders(DOMAIN s.InboundRequests),
          outOrder \in Orders(DOMAIN s.OutboundRequests) :
          LET r == Retire([s EXCEPT !.panic = FALSE], inOrder, outOrder)
          IN  /\ broker' = BrokerOf(r)
              /\ clock' = r.clock
    /\ retires' = retires + 1
    /\ serverCloses' = serverCloses + 1
    /\ clientCloses' = clientCloses + 1
    /\ mainpc' = pc

\* One pass of the relay loop for a line received from a producer.
RelayStep(inbound, line, w) ==
    LET s == processMessage(St, inbound, line)
    IN  IF s.panic
        THEN /\ Teardown(s, "panicked")
             /\ w' = w
             /\ UNCHANGED writeFailed
        ELSE \E ok \in BOOLEAN :
                /\ w' = sendLine(w, line, ok)
                /\ IF ok
                   THEN /\ broker' = BrokerOf(s)
                        /\ clock' = s.clock
                        /\ UNCHANGED <<mainpc, retires, serverCloses, clientCloses,
                                       writeFailed>>
                   ELSE /\ Teardown(s, "returned")
                        /\ writeFailed' = TRUE

RelayFromServer ==
    /\ mainpc = "relay"
    /\ sprod = "sending"
    /\ sprod' = "reading"
    /\ RelayStep(TRUE, serverRead[Len(serverRead)], toClient)
    /\ UNCHANGED <<hs, cprod, clientRead, serverRead, toServer, replies, ctxDone, dials>>

RelayFromClient ==
    /\ mainpc = "relay"
    /\ cprod = "sending"
    /\ cprod' = "reading"
    /\ RelayStep(FALSE, clientRead[Len(clientRead)], toServer)
    /\ UNCHANGED <<hs, sprod, clientRead, serverRead, toClient, replies, ctxDone, dials>>

\* The relay select takes <-ctx.Done().
RelayCancelled ==
    /\ mainpc = "relay"
    /\ ctxDone
    /\ Teardown(St, "returned")
    /\ UNCHANGED <<hs, cprod, sprod, clientRead, serverRead, toServer, toClient, replies,
                   ctxDone, dials, writeFailed>>

Next ==
    \/ ClientRead
    \/ ClientEOF
    \/ ServerRead
    \/ ServerEOF
    \/ HandshakeTimeout
    \/ HandshakeRecv
    \/ HandshakeProcess
    \/ RelayFromServer
    \/ RelayFromClient
    \/ RelayCancelled

Spec == Init /\ [][Next]_vars

(***************************************************************************)
(* Properties                                                              *)
(***************************************************************************)
IsPrefix(a, b) == Len(a) <= Len(b) /\ \A i \in 1..Len(a) : a[i] = b[i]

\* What the client producer read after the handshake line.
ClientRelayRead == IF clientRead = <<>> THEN <<>> ELSE Tail(clientRead)

\* The lines of r that its producer has handed to the relay loop.
HandedOver(r, prod) == SubSeq(r, 1, Len(r) - (IF prod = "sending" THEN 1 ELSE 0))

\* This step is a pass of the relay loop for a line from the server / client.
ServerStep == mainpc = "relay" /\ sprod = "sending" /\ sprod' = "reading"
ClientStep == mainpc = "relay" /\ cprod = "sending" /\ cprod' = "reading"

ServerLine == serverRead[Len(serverRead)]
ClientLine == clientRead[Len(clientRead)]

IsResponse(msg) == ~msg.err /\ msg.ID # 0 /\ msg.Method = ""
IsNotification(msg) == ~msg.err /\ msg.ID = 0 /\ msg.Method # ""

PendingMap(b, inbound) == IF inbound THEN b.InboundRequests ELSE b.OutboundRequests

InMap(m, e) == \E k \in DOMAIN m : m[k] = e

\* C1: for each direction, the lines written to the opposite transport are a
\* prefix of the lines the producer of that direction read after the handshake,
\* same order, same content, parsable or not.
C1_Transparency ==
    /\ IsPrefix(toServer, ClientRelayRead)
    /\ IsPrefix(toClient, serverRead)

C1_Witness ==
    /\ hs = "ok"
    /\ Len(toServer) = 2
    /\ toServer[1] = Garbage
    /\ Len(toClient) = 1

\* C2 as stated: when handleConn has returned with no write failure, every line
\* the producers read while relaying was written to the opposite transport.
C2_ExactlyOnce ==
    (mainpc = "returned" /\ hs = "ok" /\ ~writeFailed)
        => /\ toServer = ClientRelayRead
           /\ toClient = serverRead

\* C2 amended: the lines written are exactly the lines the producers handed to
\* the relay loop, once each and in order, both while the loop waits in its
\* select and after it returned on cancellation; the one line a producer still
\* holds on its channel send is the only one read and not written.
C2_HandedOverOnce ==
    (hs = "ok" /\ mainpc \in {"relay", "returned"} /\ ~writeFailed)
        => /\ toServer = HandedOver(ClientRelayRead, cprod)
           /\ toClient = HandedOver(serverRead, sprod)

C2_Witness ==
    /\ hs = "ok"
    /\ mainpc = "returned"
    /\ ~writeFailed
    /\ cprod = "sending"
    /\ Len(toServer) = 1
    /\ Len(ClientRelayRead) = 2
    /\ Len(toClient) = 1

\* The C3 statement for one direction: a response from the peer opposite to the
\* caller resolves every pending record the caller registered under that id.
Resolves(inbound, line) ==
    LET msg == Unmarshal(line)
    IN  IsResponse(msg) =>
            \A e \in DOMAIN broker.Events :
                (/\ broker.Events[e].Kind = EventKindRequest
                 /\ broker.Events[e].Inbound = ~inbound
                 /\ broker.Events[e].ID = msg.ID
                 /\ broker.Events[e].Status = EventStatusPending)
                => /\ broker'.Events[e].Status =
                          (IF msg.Error # Nil THEN EventStatusErrored
                           ELSE EventStatusCompleted)
                   /\ broker'.Events[e].End = clock + 1
                   /\ mainpc' = "relay" => clock' = clock + 1
                   /\ msg.ID \notin DOMAIN PendingMap(broker', ~inbound)

\* C3: a response with id X from the server moves the pending client request X
\* to errored (error present) or completed, once, sets End and removes X from
\* OutboundRequests; and symmetrically for a server request.
C3_Correlation ==
    [][/\ ServerStep => Resolves(TRUE, ServerLine)
       /\ ClientStep => Resolves(FALSE, ClientLine)]_vars

\* The C4 statement for one direction.
UnknownResponseIgnored(inbound, line, w) ==
    LET msg == Unmarshal(line)
    IN  (IsResponse(msg) /\ msg.ID \notin DOMAIN PendingMap(broker, ~inbound))
            => /\ BrokerOf(processMessage(St, inbound, line)) = broker
               /\ ~writeFailed' =>
                      /\ broker' = broker
                      /\ mainpc' = "relay"
                      /\ w' = Append(w, line)

\* C4: a response whose id is not a key of the opposite direction's pending
\* map changes neither map, nor the event log, nor any record, and is
\* forwarded.
C4_UnknownResponse ==
    [][/\ ServerStep => UnknownResponseIgnored(TRUE, ServerLine, toClient)
       /\ ClientStep => UnknownResponseIgnored(FALSE, ClientLine, toServer)]_vars

C4_Witness ==
    /\ mainpc = "relay"
    /\ toClient = <<>>
    /\ Len(toServer) = 2
    /\ IsResponse(Unmarshal(toServer[2]))
    /\ Len(broker.Events) = 1
    /\ ~broker.Events[1].Inbound
    /\ broker.Events[1].ID = Unmarshal(toServer[2]).ID
    /\ broker.Events[1].Status = EventStatusPending
    /\ broker.OutboundRequests = Put(<<>>, broker.Events[1].ID, 1)

\* The C5 statement for one direction: a response received from one peer
\* changes only records of the other peer's requests with that id, and leaves
\* the pending map of its own direction alone.
OnlyOppositeResolved(inbound, line) ==
    LET msg == Unmarshal(line)
    IN  (IsResponse(msg) /\ mainpc' = "relay")
            => /\ PendingMap(broker', inbound) = PendingMap(broker, inbound)
               /\ Len(broker'.Events) = Len(broker.Events)
               /\ \A e \in DOMAIN broker.Events :
                      broker'.Events[e] # broker.Events[e]
                          => /\ broker.Events[e].Inbound = ~inbound
                             /\ broker.Events[e].ID = msg.ID

\* C5: with the same id pending in both directions, a response from the server
\* resolves only the outbound record and a response from the client only the
\* inbound one; the other record keeps its status and its place in its map.
C5_DirectionIndependence ==
    [][/\ ServerStep => OnlyOppositeResolved(TRUE, ServerLine)
       /\ ClientStep => OnlyOppositeResolved(FALSE, ClientLine)]_vars

C5_Witness ==
    /\ mainpc = "relay"
    /\ \E a, b \in DOMAIN broker.Events :
          /\ broker.Events[a].ID = broker.Events[b].ID
          /\ ~broker.Events[a].Inbound
          /\ broker.Events[b].Inbound
          /\ broker.Events[a].Status = EventStatusCompleted
          /\ broker.Events[a].End > broker.Events[b].Start
          /\ broker.Events[b].Status = EventStatusPending
          /\ broker.Events[b].ID \in DOMAIN broker.InboundRequests
          /\ broker.InboundRequests[broker.Events[b].ID] = b

\* The broker as Retire finds it in this step: after processMessage when the
\* step is a pass of the relay loop.
AtRetire ==
    IF ServerStep THEN processMessage(St, TRUE, ServerLine)
    ELSE IF ClientStep THEN processMessage(St, FALSE, ClientLine)
    ELSE St

RetiredNow(s) == {s.InboundRequests[k] : k \in DOMAIN s.InboundRequests}
                 \cup {s.OutboundRequests[k] : k \in DOMAIN s.OutboundRequests}

\* C6: at teardown of a connection that relayed, Retire moves every record
\* that is in a pending map at that moment to cancelled, once each (one now()
\* per record, so the End values are distinct), with End set, touches no other
\* record, and leaves both maps empty.
C6_TeardownFinality ==
    [][retires' # retires =>
          LET s == AtRetire
          IN  /\ hs = "ok"
              /\ retires' = 1
              /\ \A e \in RetiredNow(s) :
                    /\ s.Events[e].Status = EventStatusPending
                    /\ broker'.Events[e].Status = EventStatusCancelled
                    /\ broker'.Events[e].End \in (s.clock + 1)..clock'
                    /\ \A o \in RetiredNow(s) :
                          broker'.Events[o].End = broker'.Events[e].End => o = e
              /\ clock' = s.clock + Cardinality(RetiredNow(s))
              /\ Len(broker'.Events) = Len(s.Events)
              /\ \A e \in DOMAIN s.Events \ RetiredNow(s) :
                    broker'.Events[e] = s.Events[e]
              /\ broker'.InboundRequests = <<>>
              /\ broker'.OutboundRequests = <<>>]_vars

C6_Witness ==
    /\ retires = 1
    /\ mainpc = "returned"
    /\ broker.InboundRequests = <<>>
    /\ broker.OutboundRequests = <<>>
    /\ \E a, b \in DOMAIN broker.Events :
          /\ broker.Events[a].Inbound
          /\ ~broker.Events[b].Inbound
          /\ broker.Events[a].Status = EventStatusCancelled
          /\ broker.Events[b].Status = EventStatusCancelled
          /\ broker.Events[a].End < broker.Events[b].End

\* C7: every request record of the event log is a value of exactly one pending
\* map while it is pending and of neither map once it is completed, errored or
\* cancelled.
C7_LedgerInvariant ==
    \A e \in DOMAIN broker.Events :
        broker.Events[e].Kind = EventKindRequest =>
            IF broker.Events[e].Status = EventStatusPending
            THEN InMap(broker.InboundRequests, e) # InMap(broker.OutboundRequests, e)
            ELSE ~InMap(broker.InboundRequests, e) /\ ~InMap(broker.OutboundRequests, e)

\* The C8 statement for one direction.
NotificationLogged(inbound, line) ==
    LET msg == Unmarshal(line)
        n   == Len(broker.Events) + 1
    IN  IsNotification(msg) =>
            /\ Len(broker'.Events) = n
            /\ broker'.Events[n].Kind = EventKindNotification
            /\ broker'.Events[n].Status = EventStatusCompleted
            /\ broker'.Events[n].Method = msg.Method
            /\ Duration(broker'.Events[n]) = 0
            /\ ~InMap(broker'.InboundRequests, n)
            /\ ~InMap(broker'.OutboundRequests, n)
            /\ mainpc' = "relay" =>
                   /\ broker'.InboundRequests = broker.InboundRequests
                   /\ broker'.OutboundRequests = broker.OutboundRequests

C9_DialFailure ==
    hs = "dial" =>
        /\ Len(replies) = 1
        /\ replies[1].kind = "error"
        /\ replies[1].id = Unmarshal(clientRead[1]).ID
        /\ replies[1].code = -32603
        /\ dials = 1
        /\ mainpc = "returned"
        /\ clientCloses = 1
        /\ sprod = "idle"
        /\ retires = 0
        /\ toServer = <<>>
        /\ toClient = <<>>

C9_Witness ==
    /\ hs = "dial"
    /\ Unmarshal(clientRead[1]).ID = 2
    /\ Unmarshal(clientRead[1]).Params = "addr"
    /\ replies[1].delivered
    /\ cprod = "exited"

\* C10: a first line that parses with id n but has a version tag other than
\* "2.0", or a method other than Proxy.Connect, gets an error reply with id n
\* and code -32600 before the connection is aborted, and no dial is attempted.
C10_InvalidRequest ==
    hs \in {"version", "method"} =>
        /\ Len(replies) = 1
        /\ replies[1].kind = "error"
        /\ replies[1].id = Unmarshal(clientRead[1]).ID
        /\ replies[1].code = -32600
        /\ dials = 0
        /\ mainpc = "returned"
        /\ clientCloses = 1

\* The first line is a Proxy.Connect request with the right version tag.
FirstIsConnect ==
    /\ clientRead # <<>>
    /\ ~Unmarshal(clientRead[1]).err
    /\ Unmarshal(clientRead[1]).JSONRPC = "2.0"
    /\ Unmarshal(clientRead[1]).Method = "Proxy.Connect"

\* handleConn is over: it returned, or it panicked and its deferred calls ran.
Terminated == mainpc \in {"returned", "panicked"}

\* C11: a Proxy.Connect request with id n whose params are missing, or do not
\* decode to a target address, gets an error reply with id n and code -32602;
\* the connection is aborted and no dial is attempted.
C11_InvalidParams ==
    (/\ FirstIsConnect
     /\ Unmarshal(clientRead[1]).Params \in {Nil, "bad", "noaddr"}
     /\ hs \notin {"none", "timeout"})
        => /\ Len(replies) = 1
           /\ replies[1].kind = "error"
           /\ replies[1].id = Unmarshal(clientRead[1]).ID
           /\ replies[1].code = -32602
           /\ dials = 0
           /\ mainpc = "returned"
           /\ clientCloses = 1

\* C12: the relay is entered (server producer started, anything forwarded) only
\* after a valid Proxy.Connect first line, a successful dial and the success
\* reply with the same id written to the client; after a timeout or a failed
\* handshake nothing is forwarded; the handshake line is never forwarded, and
\* what goes to the target is the client's second and later lines, in order.
C12_HandshakeGating ==
    /\ (sprod # "idle" \/ mainpc = "relay" \/ toServer # <<>> \/ toClient # <<>>
            \/ retires # 0)
        => /\ hs = "ok"
           /\ FirstIsConnect
           /\ ~UnmarshalParams(Unmarshal(clientRead[1]).Params).err
           /\ dials = 1
           /\ replies = <<[kind |-> "result", id |-> Unmarshal(clientRead[1]).ID,
                           code |-> 0, newline |-> TRUE, delivered |-> TRUE]>>
    /\ hs \notin {"none", "ok"}
        => /\ Terminated
           /\ sprod = "idle"
           /\ toServer = <<>>
           /\ toClient = <<>>
    /\ \A i \in DOMAIN toServer : toServer[i] = clientRead[i + 1]
    /\ \A i \in DOMAIN toServer : toServer[i] # clientRead[1]

C12_Witness ==
    /\ hs = "ok"
    /\ Len(clientRead) = 3
    /\ Len(toServer) = 2
    /\ toServer[1] # toServer[2]

\* C13: whatever the peers send, handleConn never panics.
C13_NoPanic == mainpc # "panicked"

C15_NoGoroutineLeak ==
    Terminated => cprod # "sending" /\ sprod # "sending"

\* C16: the client connection is closed exactly once, at teardown; the server
\* connection, once dialled, likewise; Retire runs exactly once for a
\* connection that relayed, and the broker is not touched after it.
C16_TeardownOnce ==
    /\ [](/\ clientCloses = (IF Terminated THEN 1 ELSE 0)
          /\ serverCloses = (IF Terminated /\ hs \in {"ok", "reply"} THEN 1 ELSE 0)
          /\ retires = (IF Terminated /\ hs = "ok" THEN 1 ELSE 0))
    /\ [][retires = 1 => broker' = broker /\ clock' = clock]_vars

C16_Witness ==
    /\ mainpc = "returned"
    /\ hs = "ok"
    /\ retires = 1
    /\ serverCloses = 1
    /\ clientCloses = 1
    /\ cprod = "exited"
    /\ sprod = "exited"
    /\ Len(broker.Events) = 2

\* C17: after a failed sendLine the relay loop forwards nothing more,
\* handleConn has returned, both connections are closed, Retire has run and
\* no record is left pending.
C17_WriteFailureFatal ==
    /\ [](writeFailed =>
              /\ mainpc = "returned"
              /\ clientCloses = 1
              /\ serverCloses = 1
              /\ retires = 1
              /\ \A e \in DOMAIN broker.Events :
                    broker.Events[e].Status # EventStatusPending)
    /\ [][writeFailed => toServer' = toServer /\ toClient' = toClient]_vars

\* The C18 statement for one direction; a line that is no JSON object.
UnparsableIgnored(inbound, line, w) ==
    "raw" \in DOMAIN line
        => /\ processMessage(St, inbound, line) = St
           /\ ~writeFailed' =>
                  /\ broker' = broker
                  /\ clock' = clock
                  /\ mainpc' = "relay"
                  /\ w' = Append(w, line)

\* C18: a line that does not parse leaves both pending maps, the event log and
\* every record as they were, and is forwarded verbatim; the tracker goes on as
\* if it had not seen the line.
C18_ParseFailureSkipped ==
    [][/\ ServerStep => UnparsableIgnored(TRUE, ServerLine, toClient)
       /\ ClientStep => UnparsableIgnored(FALSE, ClientLine, toServer)]_vars

C18_Witness ==
    /\ mainpc = "relay"
    /\ Len(toServer) = 3
    /\ toServer[2] = Garbage
    /\ Len(broker.Events) = 2
    /\ broker.Events[1].Status = EventStatusPending
    /\ broker.Events[2].Status = EventStatusPending
    /\ broker.Events[2].Start = 2

\* C19: every event of the event log has a method: a line without a method,
\* whatever its id, registers no event.
C19_EventsHaveMethod ==
    \A e \in DOMAIN broker.Events : broker.Events[e].Method # ""

\* C20: a record that is completed, errored or cancelled is never changed
\* again, by any later line of either peer or by Retire.
C20_TerminalImmutable ==
    [][\A e \in DOMAIN broker.Events :
          broker.Events[e].Status # EventStatusPending
              => /\ e \in DOMAIN broker'.Events
                 /\ broker'.Events[e] = broker.Events[e]]_vars

C20_Witness ==
    /\ mainpc = "returned"
    /\ retires = 1
    /\ Len(toClient) = 2
    /\ IsResponse(Unmarshal(toClient[1]))
    /\ toClient[2] # toClient[1]
    /\ Unmarshal(toClient[2]).ID = Unmarshal(toClient[1]).ID
    /\ IsResponse(Unmarshal(toClient[2]))
    /\ Len(broker.Events) = 1
    /\ broker.Events[1].Status = EventStatusCompleted
    /\ broker.Events[1].End = 2

====
